---- MODULE Spec2Model ----
(***************************************************************************)
(* Model of src/main.ts (S3UploaderPlugin): the paste/drop handler, the   *)
(* per-file upload pipelines it launches, and the placeholder patcher      *)
(* replaceText, over a live editor buffer that the user edits as well.     *)
(*                                                                         *)
(* The buffer is a sequence of symbols.  A symbol is one character ("x",   *)
(* "\n", " ") or one literal piece of the markup the plugin writes:        *)
(*   "U"  the placeholder prefix   ![uploading...](                        *)
(*   "I"  the image embed prefix   ![image](                               *)
(*   "V"  the video embed prefix   <video src="                            *)
(*   "A"  the audio embed prefix   <audio src="                            *)
(*   "P"  the pdf embed prefix     <iframe ... src="                       *)
(*   "L"  the local source prefix  file://<localUploadFolder>/             *)
(*   "https://..."  a public url prefix, settings.imageUrlPath as one      *)
(*        symbol                                                           *)
(*   "E"  the error prefix         Error uploading file:                   *)
(*   ")"  the closing piece of an embed or placeholder                     *)
(*   "d1.png", ...  a derived file name  <md5 digest>.<extension>          *)
(*   "f", "/"       the pieces of a folder path and its separator          *)
(* `own` runs parallel to `text` and records who wrote each symbol: 0 the  *)
(* user or the initial note, i > 0 the placeholder of file i, -i the final *)
(* text of file i.  The program never reads `own`.                         *)
(***************************************************************************)
EXTENDS Integers, Sequences, FiniteSets, TLC

\* ------------------------------------------------------------------ bounds
\* Largest number of files one paste/drop event carries.
MaxFiles == 2
\* Largest number of user actions (typing, deleting, moving the cursor).
MaxEdits == 2
\* Longest document the replaceText harness draws.
MaxDocLen == 4
\* Longest folder template, in pieces, the function harness draws.
MaxTmplLen == 3

Files == 1..MaxFiles

\* ------------------------------------------------------------ sequences
Min(S) == CHOOSE x \in S : \A y \in S : x <= y

\* s with the symbols at offsets from..to-1 (0-based, to exclusive) replaced
\* by ins: what editor.replaceRange / replaceSelection do to the buffer.
Splice(s, from, to, ins) ==
    SubSeq(s, 1, from) \o ins \o SubSeq(s, to + 1, Len(s))

\* n copies of v.
Fill(n, v) == [k \in 1..n |-> v]

\* All sequences over S of length at most n.
SeqsUpTo(S, n) == UNION {[1..k -> S] : k \in 0..n}

\* ------------------------------------------------ String.prototype pieces
WhiteSpace == {" ", "\n"}

RECURSIVE TrimStart(_)
TrimStart(s) ==
    IF s # <<>> /\ Head(s) \in WhiteSpace THEN TrimStart(Tail(s)) ELSE s

RECURSIVE TrimEnd(_)
TrimEnd(s) ==
    IF s # <<>> /\ s[Len(s)] \in WhiteSpace
    THEN TrimEnd(SubSeq(s, 1, Len(s) - 1))
    ELSE s

\* target.trim()
Trim(s) == TrimEnd(TrimStart(s))

\* s.split("\n"): the lines of s, without their separators; "" gives [""].
RECURSIVE Split(_)
Split(s) ==
    IF \A k \in 1..Len(s) : s[k] # "\n"
    THEN <<s>>
    ELSE LET nl == Min({k \in 1..Len(s) : s[k] = "\n"})
         IN  <<SubSeq(s, 1, nl - 1)>> \o Split(SubSeq(s, nl + 1, Len(s)))

\* The offsets (0-based) at which t occurs in s.
Occurrences(s, t) ==
    {k \in 0..(Len(s) - Len(t)) : SubSeq(s, k + 1, k + Len(t)) = t}

IndexOf_Last(s, t) ==
    IF Occurrences(s, t) = {} THEN -1
    ELSE CHOOSE k \in Occurrences(s, t) : \A j \in Occurrences(s, t) : j <= k

\* s.indexOf(t): the leftmost offset of t in s, or -1.
IndexOf(s, t) ==
    IF Occurrences(s, t) = {} THEN -1 ELSE Min(Occurrences(s, t))

\* ------------------------------------------------------------ the editor
\* editor.posToOffset for a position {line, ch} of the buffer whose lines
\* are `lines` (line and ch are 0-based).
RECURSIVE PosToOffset(_, _)
PosToOffset(lines, pos) ==
    IF pos.line = 0 THEN pos.ch
    ELSE Len(lines[1]) + 1
         + PosToOffset(Tail(lines), [line |-> pos.line - 1, ch |-> pos.ch])

\* editor.setCursor(pos)
setCursor(e, pos) == [e EXCEPT !.cursor = PosToOffset(Split(e.text), pos)]

\* editor.replaceRange(replacement, from, to); tag is the writer recorded in
\* `own`.  A cursor before the range stays, one behind it shifts with the
\* text, one inside it collapses to the start of the range.
replaceRange(e, replacement, from, to, tag) ==
    LET f == PosToOffset(Split(e.text), from)
        t == PosToOffset(Split(e.text), to)
    IN  [text   |-> Splice(e.text, f, t, replacement),
         own    |-> Splice(e.own, f, t, Fill(Len(replacement), tag)),
         cursor |-> IF e.cursor <= f THEN e.cursor
                    ELSE IF e.cursor >= t
                         THEN e.cursor - (t - f) + Len(replacement)
                         ELSE f]

\* editor.replaceSelection(ins) with an empty selection: ins goes in at the
\* cursor and the cursor ends behind it.
replaceSelection(e, ins, tag) ==
    [text   |-> Splice(e.text, e.cursor, e.cursor, ins),
     own    |-> Splice(e.own, e.cursor, e.cursor, Fill(Len(ins), tag)),
     cursor |-> e.cursor + Len(ins)]

\* ----------------------------------------------------------- replaceText
\* The loop of replaceText: the first line, top to bottom, that holds the
\* trimmed target, and the range of its leftmost occurrence on that line.
FindTarget(text, target) ==
    LET t     == Trim(target)
        lines == Split(text)
        hits  == {i \in 1..Len(lines) : IndexOf(lines[i], t) # -1}
    IN  IF hits = {}
        THEN [found |-> FALSE,
              from |-> [line |-> 0, ch |-> 0], to |-> [line |-> 0, ch |-> 0]]
        ELSE LET i  == Min(hits)
                 ch == IndexOf(lines[i], t)
             IN  [found |-> TRUE,
                  from  |-> [line |-> i - 1, ch |-> ch],
                  to    |-> [line |-> i - 1, ch |-> ch + Len(t)]]

replaceText_MovesCursor(e, target, replacement, tag) ==
    LET m == FindTarget(e.text, target)
    IN  replaceRange(setCursor(e, m.from), IF m.found THEN replacement ELSE <<>>,
                     m.from, m.to, tag)

\* S3UploaderPlugin.replaceText: cursor to the start of the range found,
\* then one replaceRange; nothing found, nothing done.
replaceText(e, target, replacement, tag) ==
    LET m == FindTarget(e.text, target)
    IN  IF m.found
        THEN replaceRange(setCursor(e, m.from), replacement, m.from, m.to, tag)
        ELSE e

\* Who wrote the symbols that replaceText(e, target, ...) replaces.
ReplacedOwners(e, target) ==
    LET m == FindTarget(e.text, target)
        f == PosToOffset(Split(e.text), m.from)
        t == PosToOffset(Split(e.text), m.to)
    IN  IF m.found THEN {e.own[k] : k \in (f + 1)..t} ELSE {}

\* ------------------------------------------------------ settings and files
\* DEFAULT_SETTINGS, the fields the handler, the pipelines and onload
\* read.  Folder templates and urls are sequences of pieces; <<>> is the
\* empty string.  A url keeps "://" and "/" as pieces of their own.
DEFAULT_SETTINGS ==
    [region            |-> "",
     bucket            |-> "",
     folder            |-> <<>>,
     imageUrlPath      |-> <<>>,
     uploadOnDrag      |-> TRUE,
     localUpload       |-> FALSE,
     localUploadFolder |-> <<>>,
     useCustomEndpoint |-> FALSE,
     customEndpoint    |-> <<>>,
     forcePathStyle    |-> FALSE,
     useCustomImageUrl |-> FALSE,
     customImageUrl    |-> <<>>,
     uploadVideo       |-> FALSE,
     uploadAudio       |-> FALSE,
     uploadPdf         |-> FALSE]

\* The settings a run starts from: the defaults, and a vault set up for
\* local copies with video uploads switched on.
LocalSettings ==
    [DEFAULT_SETTINGS EXCEPT !.localUpload = TRUE,
                             !.localUploadFolder = <<"f">>,
                             !.uploadVideo = TRUE]

\* The settings a run starts from.
SettingsChoices == {DEFAULT_SETTINGS, LocalSettings}

\* The pieces of a string written as one string.
RECURSIVE Join(_)
Join(s) == IF s = <<>> THEN "" ELSE Head(s) \o Join(Tail(s))

\* The frontmatter of the active note.  A key that is absent (undefined)
\* is <<>>, a key with value v is <<v>>.  A folder value carries its
\* JavaScript type: YAML `folder: 2024` is a number.
NoFm ==
    [present |-> FALSE, localUpload |-> <<>>, uploadVideo |-> <<>>,
     uploadAudio |-> <<>>, uploadPdf |-> <<>>, uploadOnDrag |-> <<>>,
     folder |-> <<>>, localUploadFolder |-> <<>>]

FmChoices ==
    {NoFm,
     [NoFm EXCEPT !.present = TRUE,
                  !.uploadOnDrag = <<FALSE>>,
                  !.folder = <<[isString |-> FALSE, v |-> <<"2024">>]>>,
                  !.localUploadFolder =
                      <<[isString |-> FALSE, v |-> <<"2024">>]>>]}

\* typeof fm?.key !== "undefined" ? fm.key : this.settings.key
Overlay(fmv, opt, dflt) == IF fmv.present /\ opt # <<>> THEN opt[1] ELSE dflt

\* A File: its media type split at "/", its content, and its name split at
\* ".".
SampleFiles ==
    {[type |-> <<"image", "png">>, bytes |-> "x", name |-> <<"pic", "png">>],
     [type |-> <<"video", "mp4">>, bytes |-> "y", name |-> <<"clip", "mp4">>]}

NoFile == [type |-> <<>>, bytes |-> "", name |-> <<>>]

\* type.startsWith(major + "/")
StartsWithMajor(type, major) == Len(type) >= 2 /\ type[1] = major

getFileType_ImageFallback(file, uploadVideo, uploadAudio, uploadPdf) ==
    IF StartsWithMajor(file.type, "video") THEN
        (IF uploadVideo THEN "video" ELSE "image")
    ELSE IF StartsWithMajor(file.type, "audio") /\ uploadAudio THEN "audio"
    ELSE IF file.type = <<"application", "pdf">> /\ uploadPdf THEN "pdf"
    ELSE IF StartsWithMajor(file.type, "image") THEN "image"
    ELSE "null"

\* S3UploaderPlugin.getFileType; "null" is null.
getFileType(file, uploadVideo, uploadAudio, uploadPdf) ==
    IF StartsWithMajor(file.type, "video") /\ uploadVideo THEN "video"
    ELSE IF StartsWithMajor(file.type, "audio") /\ uploadAudio THEN "audio"
    ELSE IF file.type = <<"application", "pdf">> /\ uploadPdf THEN "pdf"
    ELSE IF StartsWithMajor(file.type, "image") THEN "image"
    ELSE "null"

\* crypto.createHash("md5").update(bytes).digest("hex"): one digest per
\* content, equal contents giving equal digests.
Md5(bytes) == IF bytes = "x" THEN "d1" ELSE IF bytes = "y" THEN "d2" ELSE "d0"

\* `${digest}.${file.name.split(".").pop()}`, one symbol of the buffer.
NewFileName(file) == Md5(file.bytes) \o "." \o file.name[Len(file.name)]

\* `![uploading...](${newFileName})\n`
Placeholder(file) == <<"U", NewFileName(file), ")", "\n">>

\* ------------------------------------------------------------ getFolderPath
Digit(d) == <<"0", "1", "2", "3", "4", "5", "6", "7", "8", "9">>[d + 1]

\* n.toString() for n >= 0, as digit symbols.
RECURSIVE ToDigits(_)
ToDigits(n) == IF n < 10 THEN <<Digit(n)>>
               ELSE ToDigits(n \div 10) \o <<Digit(n % 10)>>

\* s.padStart(2, "0")
PadStart2(s) == IF Len(s) < 2 THEN Fill(2 - Len(s), "0") \o s ELSE s

\* s.replace(token, ins) with a string pattern: the first occurrence only.
ReplaceFirst(s, token, ins) ==
    LET k == IndexOf(s, <<token>>)
    IN  IF k = -1 THEN s ELSE Splice(s, k, k + 1, ins)

\* ------------------------------------------------------------------- onload
\* apiEndpoint of onload: the custom endpoint, or
\* `https://s3.${region}.amazonaws.com/`.
ApiEndpoint(s) ==
    IF s.useCustomEndpoint THEN s.customEndpoint
    ELSE <<"https", "://", "s3.", s.region, ".amazonaws.com", "/">>

ImageUrlPath_BucketAsPath(s) ==
    IF s.useCustomImageUrl THEN s.customImageUrl
    ELSE ApiEndpoint(s) \o <<s.bucket, "/">>

\* The value onload gives settings.imageUrlPath.
ImageUrlPath(s) ==
    IF s.useCustomImageUrl THEN s.customImageUrl
    ELSE IF s.forcePathStyle THEN ApiEndpoint(s) \o <<s.bucket, "/">>
    ELSE ReplaceFirst(ApiEndpoint(s), "://", <<"://", s.bucket, ".">>)

\* The options the request handler of the client is made with:
\* { keepAlive: false }, no requestTimeout (<<>> is undefined).
OnloadHandlerOptions == [keepAlive |-> FALSE, requestTimeout |-> <<>>]

\* onload for loaded settings data: this.settings with imageUrlPath
\* resolved, and the S3Client.
onload(data) ==
    [settings |-> [data EXCEPT !.imageUrlPath = ImageUrlPath(data)],
     s3       |-> [region         |-> data.region,
                   endpoint       |-> ApiEndpoint(data),
                   forcePathStyle |-> data.forcePathStyle,
                   requestHandler |-> OnloadHandlerOptions]]

\* uploadFile, remote branch: `${this.settings.imageUrlPath}${key}`.
RemoteLocation(s, k) == <<Join(s.imageUrlPath)>> \o k

\* new Date() at the time a pipeline resolves its folder.
Today == [year |-> 2024, month |-> 3, day |-> 7]

\* S3UploaderPlugin.getFolderPath.  threw is the TypeError of calling
\* .replace on a frontmatter value that is not a string.
getFolderPath(cfg, fmv, isLocal, date) ==
    LET base == Trim(IF isLocal THEN cfg.localUploadFolder ELSE cfg.folder)
        opt  == IF isLocal THEN fmv.localUploadFolder ELSE fmv.folder
        over == fmv.present /\ opt # <<>> /\ opt[1].v # <<>>
        tmpl == IF over THEN opt[1].v ELSE base
    IN  IF over /\ ~opt[1].isString
        THEN [threw |-> TRUE, folder |-> <<>>]
        ELSE [threw  |-> FALSE,
              folder |->
                ReplaceFirst(
                  ReplaceFirst(
                    ReplaceFirst(tmpl, "${year}", ToDigits(date.year)),
                    "${month}", PadStart2(ToDigits(date.month))),
                  "${day}", PadStart2(ToDigits(date.day)))]

\* folder ? `${folder}/${newFileName}` : newFileName
Key(folder, file) ==
    IF folder # <<>> THEN folder \o <<"/", NewFileName(file)>>
    ELSE <<NewFileName(file)>>

\* key.substring(0, key.lastIndexOf("/"))
FolderOfKey(key) ==
    LET slashes == {k \in 1..Len(key) : key[k] = "/"}
    IN  IF slashes = {} THEN <<>>
        ELSE SubSeq(key, 1, (CHOOSE k \in slashes : \A j \in slashes : j <= k) - 1)

\* wrapFileDependingOnType; the default branch (an unknown kind) throws and
\* is not reached, getFileType having produced the kind.
wrapFileDependingOnType(location, type, localBase) ==
    LET srcPrefix == IF localBase # <<>> THEN <<"L">> ELSE <<>>
    IN  IF type = "image" THEN <<"I">> \o location \o <<")">>
        ELSE IF type = "video" THEN <<"V">> \o srcPrefix \o location \o <<")">>
        ELSE IF type = "audio" THEN <<"A">> \o srcPrefix \o location \o <<")">>
        ELSE <<"P">> \o location \o <<")">>

\* `Error uploading file: ${error.message}\n`
ErrorLine(msg) == <<"E", msg, "\n">>

\* ------------------------------------------------------------------- state
VARIABLES
    settings,   \* this.settings
    s3,         \* this.s3: what the S3Client was constructed with
    policy,     \* this.settings as they were when the event was handled
    folders,    \* the vault: the folder paths that exist
    editor,     \* the note's buffer: [text, own, cursor]
    edits,      \* user actions so far
    hpc,        \* pasteHandler's promise: "idle" before the event, then
                \* "returned" (a guard returned), "awaiting" (Promise.all
                \* pending), "fulfilled" or "rejected"
    prevented,  \* ev.preventDefault() was called
    notices,    \* "All files processed." notices shown
    fm,         \* the frontmatter the handler captured
    localUpload,\* the localUpload flag the handler resolved
    file,       \* file[i]: the i-th File of the event, or NoFile
    kind,       \* kind[i]: thisType of file i
    key,        \* key[i]: the storage key of file i, once computed
    st,         \* st[i]: where the pipeline of file i stands
    attempts,   \* attempts[i]: PUTs and writeBinary calls dispatched for i
    calls,      \* calls[i]: replaceText calls made for i
    placed,     \* placed[i]: the callback of i has inserted its placeholder
    hit,        \* hit[i]: who wrote what the replaceText call of i replaced
    rt,         \* the replaceText harness: inputs and result
    fn,         \* the harness of the pure functions: inputs and result
    http        \* the ObsHttpHandler harness: one request and its fate

vars == <<settings, s3, policy, folders, editor, edits, hpc, prevented, notices, fm,
          localUpload, file, kind, key, st, attempts, calls, placed, hit, rt, fn, http>>

pipeVars == <<settings, s3, policy, folders, editor, edits, hpc, prevented,
              notices, fm, localUpload, file, kind, key, st, attempts, calls,
              placed, hit>>

\* Pipeline positions.  "none": no such file.  "skipped": unsupported type,
\* the callback returned.  "reading": awaiting file.arrayBuffer().
\* "putting": awaiting s3.send.  "checking": awaiting adapter.exists.
\* "creating": awaiting vault.createFolder.  "writing": awaiting
\* adapter.writeBinary.  "succeeded"/"failed": the try or the catch ran
\* replaceText and the callback's promise fulfilled.  "rejected": an
\* error left the callback and its promise rejected.
Pending  == {"reading", "putting", "checking", "creating", "writing"}
Terminal == {"skipped", "succeeded", "failed", "rejected"}

\* The harnesses at rest.
FnIdle == [op |-> "none", arg |-> <<>>, res |-> <<>>, done |-> FALSE]

HttpIdle == [state |-> "idle"]

RtIdle == [e |-> [text |-> <<>>, own |-> <<>>, cursor |-> 0],
           target |-> <<>>, replacement |-> <<>>,
           res |-> [text |-> <<>>, own |-> <<>>, cursor |-> 0],
           done |-> FALSE]

InitEditors ==
    {[text |-> t, own |-> Fill(Len(t), 0), cursor |-> c] :
        <<t, c>> \in {<<<<>>, 0>>, <<<<"x">>, 1>>}}

InitPipes ==
    /\ \E data \in SettingsChoices :
          /\ settings = onload(data).settings
          /\ s3 = onload(data).s3
    /\ policy = settings
    /\ folders = {}
    /\ editor \in InitEditors
    /\ edits = 0
    /\ hpc = "idle"
    /\ prevented = FALSE
    /\ notices = 0
    /\ fm = NoFm
    /\ localUpload = FALSE
    /\ file = [i \in Files |-> NoFile]
    /\ kind = [i \in Files |-> "null"]
    /\ key = [i \in Files |-> <<>>]
    /\ st = [i \in Files |-> "none"]
    /\ attempts = [i \in Files |-> 0]
    /\ calls = [i \in Files |-> 0]
    /\ placed = [i \in Files |-> FALSE]
    /\ hit = [i \in Files |-> {}]

Init == InitPipes /\ rt = RtIdle /\ fn = FnIdle /\ http = HttpIdle

\* --------------------------------------------------------------- Promise.all
\* Promise.all(uploads) from handler state h, the callbacks' promises being
\* at s: it rejects with the first rejection and fulfils when every promise
\* has fulfilled.
AllOutcome(h, s) ==
    IF h # "awaiting" THEN h
    ELSE IF \E i \in Files : s[i] = "rejected" THEN "rejected"
    ELSE IF \A i \in Files : s[i] \notin Pending THEN "fulfilled"
    ELSE "awaiting"

\* .then(() => new Notice("All files processed.")): runs on fulfilment only.
Settle(h, s) ==
    /\ hpc' = AllOutcome(h, s)
    /\ notices' = IF h = "awaiting" /\ AllOutcome(h, s) = "fulfilled"
                  THEN notices + 1 ELSE notices

\* ------------------------------------------------------------- pasteHandler
\* The events a run draws: paste or drop, possibly handled already, with
\* up to MaxFiles sample files.
FileLists == UNION {[1..n -> SampleFiles] : n \in 0..MaxFiles}

Events ==
    [type : {"paste", "drop"}, defaultPrevented : BOOLEAN, files : FileLists]

FirstStep_ReadsAnyway(fl, thisType) == "reading"

\* What the files.map callback does for fl before its first await.
FirstStep(fl, thisType) == IF thisType = "null" THEN "skipped" ELSE "reading"

PasteHandler_GlobalDragOnly(ev, noteFile, fmNow) ==
    /\ hpc = "idle"
    /\ LET lu    == Overlay(fmNow, fmNow.localUpload, settings.localUpload)
           uv    == Overlay(fmNow, fmNow.uploadVideo, settings.uploadVideo)
           ua    == Overlay(fmNow, fmNow.uploadAudio, settings.uploadAudio)
           up    == Overlay(fmNow, fmNow.uploadPdf, settings.uploadPdf)
           n     == Len(ev.files)
           types == [i \in Files |->
                       IF i <= n THEN getFileType(ev.files[i], uv, ua, up)
                       ELSE "null"]
           s1    == [i \in Files |->
                       IF i <= n THEN FirstStep(ev.files[i], types[i])
                       ELSE "none"]
       IN  IF \/ ev.defaultPrevented
              \/ ~noteFile
              \/ (ev.type = "drop" /\ ~settings.uploadOnDrag)
              \/ n = 0
           THEN /\ hpc' = "returned"
                /\ UNCHANGED <<prevented, notices, fm, localUpload, file,
                               kind, st, policy>>
           ELSE /\ prevented' = TRUE
                /\ policy' = settings
                /\ fm' = fmNow
                /\ localUpload' = lu
                /\ file' = [i \in Files |->
                              IF i <= n THEN ev.files[i] ELSE NoFile]
                /\ kind' = types
                /\ st' = s1
                /\ Settle("awaiting", s1)
    /\ UNCHANGED <<settings, s3, folders, editor, edits, key, attempts,
                   calls, placed, hit, rt, fn, http>>

\* pasteHandler(ev, editor) up to `await Promise.all(uploads)`.  noteFile
\* tells whether the workspace has an active file, fmNow is that file's
\* cached frontmatter.
PasteHandler(ev, noteFile, fmNow) ==
    /\ hpc = "idle"
    /\ LET lu    == Overlay(fmNow, fmNow.localUpload, settings.localUpload)
           uv    == Overlay(fmNow, fmNow.uploadVideo, settings.uploadVideo)
           ua    == Overlay(fmNow, fmNow.uploadAudio, settings.uploadAudio)
           up    == Overlay(fmNow, fmNow.uploadPdf, settings.uploadPdf)
           uod   == Overlay(fmNow, fmNow.uploadOnDrag, settings.uploadOnDrag)
           n     == Len(ev.files)
           types == [i \in Files |->
                       IF i <= n THEN getFileType(ev.files[i], uv, ua, up)
                       ELSE "null"]
           s1    == [i \in Files |->
                       IF i <= n THEN FirstStep(ev.files[i], types[i])
                       ELSE "none"]
       IN  IF \/ ev.defaultPrevented
              \/ ~noteFile
              \/ (ev.type = "drop" /\ ~uod)
              \/ n = 0
           THEN /\ hpc' = "returned"
                /\ UNCHANGED <<prevented, notices, fm, localUpload, file,
                               kind, st, policy>>
           ELSE /\ prevented' = TRUE
                /\ policy' = settings
                /\ fm' = fmNow
                /\ localUpload' = lu
                /\ file' = [i \in Files |->
                              IF i <= n THEN ev.files[i] ELSE NoFile]
                /\ kind' = types
                /\ st' = s1
                /\ Settle("awaiting", s1)
    /\ UNCHANGED <<settings, s3, folders, editor, edits, key, attempts,
                   calls, placed, hit, rt, fn, http>>

\* ------------------------------------------------------- the file pipelines
ReadDone_UploadFirst(i) ==
    /\ st[i] = "reading"
    /\ ~localUpload
    /\ st' = [st EXCEPT ![i] = "putting"]
    /\ key' = [key EXCEPT ![i] = Key(<<>>, file[i])]
    /\ attempts' = [attempts EXCEPT ![i] = @ + 1]
    /\ UNCHANGED <<settings, s3, policy, folders, editor, edits, hpc, prevented, notices,
                   fm, localUpload, file, kind, calls, placed, hit, rt, fn, http>>

\* The callback of file i from the fulfilment of file.arrayBuffer() to its
\* next await: digest, placeholder, folder, key, and the start of
\* uploadFile (s3.send, or adapter.exists in local mode).  getFolderPath
\* is outside the try: its TypeError rejects the callback's promise.
ReadDone(i) ==
    /\ st[i] = "reading"
    /\ LET fp == getFolderPath(settings, fm, localUpload, Today)
           s1 == [st EXCEPT ![i] = IF fp.threw THEN "rejected"
                                   ELSE IF localUpload THEN "checking"
                                   ELSE "putting"]
       IN  /\ editor' = replaceSelection(editor, Placeholder(file[i]), i)
           /\ placed' = [placed EXCEPT ![i] = TRUE]
           /\ st' = s1
           /\ key' = IF fp.threw THEN key
                     ELSE [key EXCEPT ![i] = Key(fp.folder, file[i])]
           /\ attempts' = IF fp.threw \/ localUpload THEN attempts
                          ELSE [attempts EXCEPT ![i] = @ + 1]
           /\ Settle(hpc, s1)
    /\ UNCHANGED <<settings, s3, policy, folders, edits, prevented, fm, localUpload,
                   file, kind, calls, hit, rt, fn, http>>

\* file.arrayBuffer() rejects (the file can no longer be read).  The await
\* is outside the try: the callback's promise rejects.
ReadFail(i) ==
    /\ st[i] = "reading"
    /\ st' = [st EXCEPT ![i] = "rejected"]
    /\ Settle(hpc, st')
    /\ UNCHANGED <<settings, s3, policy, folders, editor, edits, prevented, fm,
                   localUpload, file, kind, key, attempts, calls, placed,
                   hit, rt, fn, http>>

Reconcile_Twice(i, outcome, finalText) ==
    /\ editor' = replaceText(editor, Placeholder(file[i]), finalText, -i)
    /\ hit' = [hit EXCEPT ![i] = ReplacedOwners(editor, Placeholder(file[i]))]
    /\ calls' = [calls EXCEPT ![i] = @ + 2]
    /\ st' = [st EXCEPT ![i] = outcome]
    /\ Settle(hpc, st')

\* The end of the callback of file i: replaceText(editor, placeholder,
\* finalText) in the try (outcome "succeeded") or in the catch (outcome
\* "failed"); the callback's promise fulfils.
Reconcile(i, outcome, finalText) ==
    /\ editor' = replaceText(editor, Placeholder(file[i]), finalText, -i)
    /\ hit' = [hit EXCEPT ![i] = ReplacedOwners(editor, Placeholder(file[i]))]
    /\ calls' = [calls EXCEPT ![i] = @ + 1]
    /\ st' = [st EXCEPT ![i] = outcome]
    /\ Settle(hpc, st')

\* s3.send fulfilled: uploadFile returns `${imageUrlPath}${key}`.
PutOk(i) ==
    /\ st[i] = "putting"
    /\ Reconcile(i, "succeeded",
                 wrapFileDependingOnType(RemoteLocation(settings, key[i]),
                     kind[i],
                     IF localUpload THEN settings.localUploadFolder ELSE <<>>))
    /\ UNCHANGED <<settings, s3, policy, folders, edits, prevented, fm, localUpload,
                   file, kind, key, attempts, placed, rt, fn, http>>

PutFail_Retry(i) ==
    /\ st[i] = "putting"
    /\ attempts[i] < 3
    /\ attempts' = [attempts EXCEPT ![i] = @ + 1]
    /\ UNCHANGED <<settings, s3, policy, folders, editor, edits, hpc, prevented, notices,
                   fm, localUpload, file, kind, key, st, calls, placed, hit,
                   rt, fn, http>>

\* s3.send rejected: the catch writes the error line.
PutFail(i) ==
    /\ st[i] = "putting"
    /\ Reconcile(i, "failed", ErrorLine("put failed"))
    /\ UNCHANGED <<settings, s3, policy, folders, edits, prevented, fm, localUpload,
                   file, kind, key, attempts, placed, rt, fn, http>>

\* adapter.exists(folderPath) answered: createFolder when the folder is
\* missing and folderPath is not empty, else writeBinary.
ExistsDone(i) ==
    /\ st[i] = "checking"
    /\ LET folderPath == FolderOfKey(key[i])
           create     == folderPath \notin folders /\ folderPath # <<>>
       IN  /\ st' = [st EXCEPT ![i] = IF create THEN "creating" ELSE "writing"]
           /\ attempts' = IF create THEN attempts
                          ELSE [attempts EXCEPT ![i] = @ + 1]
    /\ UNCHANGED <<settings, s3, policy, folders, editor, edits, hpc, prevented, notices,
                   fm, localUpload, file, kind, key, calls, placed, hit, rt, fn, http>>

\* vault.createFolder(folderPath) settled: it rejects when the folder
\* exists by now, else the folder is created and writeBinary starts.
CreateDone(i) ==
    /\ st[i] = "creating"
    /\ IF FolderOfKey(key[i]) \in folders
       THEN /\ Reconcile(i, "failed", ErrorLine("Folder already exists."))
            /\ UNCHANGED <<folders, attempts>>
       ELSE /\ folders' = folders \cup {FolderOfKey(key[i])}
            /\ st' = [st EXCEPT ![i] = "writing"]
            /\ attempts' = [attempts EXCEPT ![i] = @ + 1]
            /\ UNCHANGED <<editor, calls, hit, hpc, notices>>
    /\ UNCHANGED <<settings, s3, policy, edits, prevented, fm, localUpload, file, kind,
                   key, placed, rt, fn, http>>

\* adapter.writeBinary fulfilled: uploadFile returns the key without a
\* leading "/".
WriteOk(i) ==
    /\ st[i] = "writing"
    /\ Reconcile(i, "succeeded",
                 wrapFileDependingOnType(
                     IF key[i] # <<>> /\ key[i][1] = "/" THEN Tail(key[i])
                     ELSE key[i],
                     kind[i],
                     IF localUpload THEN settings.localUploadFolder ELSE <<>>))
    /\ UNCHANGED <<settings, s3, policy, folders, edits, prevented, fm, localUpload,
                   file, kind, key, attempts, placed, rt, fn, http>>

\* adapter.writeBinary rejected.
WriteFail(i) ==
    /\ st[i] = "writing"
    /\ Reconcile(i, "failed", ErrorLine("write failed"))
    /\ UNCHANGED <<settings, s3, policy, folders, edits, prevented, fm, localUpload,
                   file, kind, key, attempts, placed, rt, fn, http>>

\* ------------------------------------------------------------------ the user
\* The user acts at any time, MaxEdits times at most.
UserCanAct == edits < MaxEdits

\* The user types one character at the cursor.
UserType ==
    /\ UserCanAct
    /\ editor' = replaceSelection(editor, <<"x">>, 0)
    /\ edits' = edits + 1
    /\ UNCHANGED <<settings, s3, policy, folders, hpc, prevented, notices, fm,
                   localUpload, file, kind, key, st, attempts, calls, placed,
                   hit, rt, fn, http>>

\* The user deletes the symbol at offset p.
UserDelete(p) ==
    /\ UserCanAct
    /\ p \in 0..(Len(editor.text) - 1)
    /\ editor' = [text   |-> Splice(editor.text, p, p + 1, <<>>),
                  own    |-> Splice(editor.own, p, p + 1, <<>>),
                  cursor |-> IF editor.cursor > p THEN editor.cursor - 1
                             ELSE editor.cursor]
    /\ edits' = edits + 1
    /\ UNCHANGED <<settings, s3, policy, folders, hpc, prevented, notices, fm,
                   localUpload, file, kind, key, st, attempts, calls, placed,
                   hit, rt, fn, http>>

\* The user puts the cursor at offset p.
UserMove(p) ==
    /\ UserCanAct
    /\ p \in 0..Len(editor.text)
    /\ p # editor.cursor
    /\ editor' = [editor EXCEPT !.cursor = p]
    /\ edits' = edits + 1
    /\ UNCHANGED <<settings, s3, policy, folders, hpc, prevented, notices, fm,
                   localUpload, file, kind, key, st, attempts, calls, placed,
                   hit, rt, fn, http>>

\* ------------------------------------------------------------ specification
MaxOffset == MaxFiles * 8 + MaxEdits + 1

Next ==
    \/ \E ev \in Events, noteFile \in BOOLEAN, fmNow \in FmChoices :
          PasteHandler(ev, noteFile, fmNow)
    \/ \E i \in Files : ReadDone(i)
    \/ \E i \in Files : ReadFail(i)
    \/ \E i \in Files : PutOk(i)
    \/ \E i \in Files : PutFail(i)
    \/ \E i \in Files : ExistsDone(i)
    \/ \E i \in Files : CreateDone(i)
    \/ \E i \in Files : WriteOk(i)
    \/ \E i \in Files : WriteFail(i)
    \/ UserType
    \/ \E p \in 0..MaxOffset : UserDelete(p)
    \/ \E p \in 0..MaxOffset : UserMove(p)

Spec == Init /\ [][Next]_vars

\* ------------------------------------------------- the replaceText harness
\* replaceText as a function of its inputs: a document, a target and a
\* replacement drawn from small sets, and one step that applies it.
RtDocs == SeqsUpTo({"U", "a", "\n"}, MaxDocLen)

\* Targets made like the placeholders the plugin builds: one line of text,
\* with or without white space around it.
RtTargets ==
    LET core == {<<"U">>, <<"a">>, <<"U", "a">>, <<"a", "a">>}
    IN  core \cup {t \o <<"\n">> : t \in core} \cup {<<" ">> \o t : t \in core}

RtReplacements == {<<>>, <<"R">>, <<"a", "R", "\n">>}

InitRT ==
    /\ settings = onload(DEFAULT_SETTINGS).settings
    /\ s3 = onload(DEFAULT_SETTINGS).s3
    /\ policy = settings
    /\ fn = FnIdle
    /\ http = HttpIdle
    /\ folders = {}
    /\ editor = RtIdle.e
    /\ edits = 0
    /\ hpc = "idle"
    /\ prevented = FALSE
    /\ notices = 0
    /\ fm = NoFm
    /\ localUpload = FALSE
    /\ file = [i \in Files |-> NoFile]
    /\ kind = [i \in Files |-> "null"]
    /\ key = [i \in Files |-> <<>>]
    /\ st = [i \in Files |-> "none"]
    /\ attempts = [i \in Files |-> 0]
    /\ calls = [i \in Files |-> 0]
    /\ placed = [i \in Files |-> FALSE]
    /\ hit = [i \in Files |-> {}]
    /\ \E d \in RtDocs, c \in {0, 1}, t \in RtTargets, r \in RtReplacements :
          /\ c <= Len(d)
          /\ rt = [e |-> [text |-> d, own |-> Fill(Len(d), 0), cursor |-> c],
                   target |-> t, replacement |-> r,
                   res |-> [text |-> d, own |-> Fill(Len(d), 0), cursor |-> c],
                   done |-> FALSE]

RtApply ==
    /\ ~rt.done
    /\ rt' = [rt EXCEPT
                !.res = replaceText(rt.e, rt.target, rt.replacement, -1),
                !.done = TRUE]
    /\ UNCHANGED <<pipeVars, fn, http>>

NextRT == RtApply

SpecRT == InitRT /\ [][NextRT]_vars

\* ------------------------------------------- the harness of pure functions
\* onload's resolution with uploadFile's remote result, getFileType, the
\* derived file name and getFolderPath, each as a function of inputs drawn
\* from small sets, and one step each that applies it.

\* Loaded settings for onload: the endpoint fields in every combination.
\* A custom endpoint is "" (never entered) or as the settings tab stores
\* it.
FnSettings ==
    {[DEFAULT_SETTINGS EXCEPT
         !.region = "r", !.bucket = b,
         !.useCustomEndpoint = uce, !.customEndpoint = ce,
         !.forcePathStyle = fps,
         !.useCustomImageUrl = uci,
         !.customImageUrl = <<"https", "://", "cdn.example.com", "/">>] :
        b \in {"b", "c"}, uce \in BOOLEAN, fps \in BOOLEAN, uci \in BOOLEAN,
        ce \in {<<>>, <<"https", "://", "s3.example.com", "/">>}}

FnKeys == {<<"d1.png">>, <<"f", "/", "d1.png">>}

\* Media types, split at "/".
FnTypes ==
    {<<"video", "mp4">>, <<"audio", "mpeg">>, <<"application", "pdf">>,
     <<"application", "zip">>, <<"image", "png">>, <<"text", "plain">>,
     <<"video">>, <<>>}

\* File names, split at ".": with one dot, with two, with none.
FnNames == {<<"pic", "png">>, <<"a", "tar", "gz">>, <<"README">>}

\* Folder templates: literal text and the three tokens.
FnTemplates == SeqsUpTo({"f", "${year}", "${month}", "${day}"}, MaxTmplLen)

FnDates == {[year |-> 2024, month |-> 3, day |-> 7],
            [year |-> 1999, month |-> 12, day |-> 25]}

FnInputs ==
    {[op |-> "onload", arg |-> [data |-> d, key |-> k], res |-> <<>>,
      done |-> FALSE] : d \in FnSettings, k \in FnKeys}
    \cup
    {[op |-> "getFileType",
      arg |-> [file |-> [NoFile EXCEPT !.type = ty],
               uploadVideo |-> uv, uploadAudio |-> ua, uploadPdf |-> up],
      res |-> <<>>, done |-> FALSE] :
        ty \in FnTypes, uv \in BOOLEAN, ua \in BOOLEAN, up \in BOOLEAN}
    \cup
    {[op |-> "newFileName",
      arg |-> [type |-> <<"image", "png">>, bytes |-> b, name |-> n],
      res |-> <<>>, done |-> FALSE] : b \in {"x", "y"}, n \in FnNames}
    \cup
    {[op |-> "getFolderPath",
      arg |-> [cfg |-> [DEFAULT_SETTINGS EXCEPT !.folder = tm,
                                                !.localUploadFolder = tm],
               fmv |-> NoFm, isLocal |-> l, date |-> d],
      res |-> <<>>, done |-> FALSE] :
        tm \in FnTemplates, l \in BOOLEAN, d \in FnDates}

InitFn ==
    /\ InitPipes
    /\ settings = onload(DEFAULT_SETTINGS).settings
    /\ editor = RtIdle.e
    /\ rt = RtIdle
    /\ http = HttpIdle
    /\ fn \in FnInputs

\* onload with the loaded data, then a remote uploadFile that succeeds:
\* the prefix resolved and the location returned.
FnOnload ==
    /\ fn.op = "onload" /\ ~fn.done
    /\ fn' = [fn EXCEPT
                !.res = [prefix |-> onload(fn.arg.data).settings.imageUrlPath,
                         url    |-> RemoteLocation(onload(fn.arg.data).settings,
                                                   fn.arg.key)],
                !.done = TRUE]
    /\ UNCHANGED <<pipeVars, rt, http>>

FnGetFileType ==
    /\ fn.op = "getFileType" /\ ~fn.done
    /\ fn' = [fn EXCEPT
                !.res = getFileType(fn.arg.file, fn.arg.uploadVideo,
                                    fn.arg.uploadAudio, fn.arg.uploadPdf),
                !.done = TRUE]
    /\ UNCHANGED <<pipeVars, rt, http>>

FnNewFileName ==
    /\ fn.op = "newFileName" /\ ~fn.done
    /\ fn' = [fn EXCEPT !.res = NewFileName(fn.arg), !.done = TRUE]
    /\ UNCHANGED <<pipeVars, rt, http>>

FnGetFolderPath ==
    /\ fn.op = "getFolderPath" /\ ~fn.done
    /\ fn' = [fn EXCEPT
                !.res = getFolderPath(fn.arg.cfg, fn.arg.fmv, fn.arg.isLocal,
                                      fn.arg.date),
                !.done = TRUE]
    /\ UNCHANGED <<pipeVars, rt, http>>

NextFn == FnOnload \/ FnGetFileType \/ FnNewFileName \/ FnGetFolderPath

SpecFn == InitFn /\ [][NextFn]_vars

\* ------------------------------------------------ the ObsHttpHandler harness
\* One ObsHttpHandler and one call of handle(request, options): the request
\* and the handler's options are drawn from small sets; the abort signal,
\* the response of requestUrl and the timer are the environment.

\* The options a handler is constructed with: those of onload, and ones
\* with a requestTimeout.
HandlerOptions ==
    {OnloadHandlerOptions, [keepAlive |-> FALSE, requestTimeout |-> <<1000>>]}

\* this.requestTimeoutInMs as requestTimeout takes it: undefined is 0, and
\* with 0 no timer is set.
RequestTimeoutInMs(options) ==
    IF options.requestTimeout = <<>> THEN 0 ELSE options.requestTimeout[1]

HeaderNames == {"Host", "content-length", "content-type"}

\* key.toLowerCase()
ToLowerCase(name) == IF name = "Host" THEN "host" ELSE name

\* The requests: method, port (<<>> is none) and header names vary.
Requests ==
    [method : {"GET", "HEAD", "PUT"}, protocol : {"https:"},
     hostname : {"b.s3.r.amazonaws.com"}, port : {<<>>, <<"9000">>},
     path : {"/d1.png"}, headers : SUBSET HeaderNames, body : {"x"}]

\* The argument handle gives requestUrl: the url, the headers without host
\* and content-length, no body for GET and HEAD, and the content type.
RequestUrlParam(request) ==
    [url         |-> request.protocol \o "//" \o request.hostname
                       \o (IF request.port # <<>>
                           THEN ":" \o request.port[1] ELSE "")
                       \o request.path,
     method      |-> request.method,
     headers     |-> {h \in request.headers :
                         ToLowerCase(h) \notin {"host", "content-length"}},
     body        |-> IF request.method \in {"GET", "HEAD"} THEN <<>>
                     ELSE <<request.body>>,
     contentType |-> IF "content-type" \in request.headers
                     THEN <<"content-type">> ELSE <<>>]

HttpInputs ==
    [state : {"new"}, options : HandlerOptions, request : Requests,
     aborted : BOOLEAN, atCall : {FALSE}, calls : {0}, sent : {<<>>},
     timer : {FALSE}, error : {""}]

InitHttp ==
    /\ InitPipes
    /\ settings = onload(DEFAULT_SETTINGS).settings
    /\ editor = RtIdle.e
    /\ rt = RtIdle
    /\ fn = FnIdle
    /\ http \in HttpInputs

Handle_IgnoresAbort ==
    /\ http.state = "new"
    /\ http' = [http EXCEPT
                  !.atCall = http.aborted,
                  !.state = "dispatched",
                  !.calls = @ + 1,
                  !.sent = <<RequestUrlParam(http.request)>>,
                  !.timer = RequestTimeoutInMs(http.options) > 0]
    /\ UNCHANGED <<pipeVars, rt, fn>>

\* handle(request, options) up to its return: with the signal aborted it
\* throws "Request aborted"; else it calls requestUrl and returns the race
\* of the response with requestTimeout(this.requestTimeoutInMs).
Handle ==
    /\ http.state = "new"
    /\ http' = IF http.aborted
               THEN [http EXCEPT !.atCall = TRUE, !.state = "failed",
                                 !.error = "Request aborted"]
               ELSE [http EXCEPT
                        !.atCall = FALSE,
                        !.state = "dispatched",
                        !.calls = @ + 1,
                        !.sent = <<RequestUrlParam(http.request)>>,
                        !.timer = RequestTimeoutInMs(http.options) > 0]
    /\ UNCHANGED <<pipeVars, rt, fn>>

\* The response of requestUrl arrives first: the race fulfils.
Respond ==
    /\ http.state = "dispatched"
    /\ http' = [http EXCEPT !.state = "fulfilled"]
    /\ UNCHANGED <<pipeVars, rt, fn>>

\* requestUrl rejects first: the race rejects with its error.
RespondError ==
    /\ http.state = "dispatched"
    /\ http' = [http EXCEPT !.state = "failed", !.error = "request failed"]
    /\ UNCHANGED <<pipeVars, rt, fn>>

\* The timer of requestTimeout fires first: the race rejects with the
\* timeout error.
TimeoutFires ==
    /\ http.state = "dispatched"
    /\ http.timer
    /\ http' = [http EXCEPT !.state = "failed",
                            !.error = "Request did not complete"]
    /\ UNCHANGED <<pipeVars, rt, fn>>

\* The owner of the abort signal aborts it.
Abort ==
    /\ ~http.aborted
    /\ http.state \in {"new", "dispatched"}
    /\ http' = [http EXCEPT !.aborted = TRUE]
    /\ UNCHANGED <<pipeVars, rt, fn>>

NextHttp == Handle \/ Respond \/ RespondError \/ TimeoutFires \/ Abort

\* The handler's own steps and its timer run when they can; whether a
\* response ever arrives is up to the network.
SpecHttp ==
    InitHttp /\ [][NextHttp]_vars /\ WF_vars(Handle) /\ WF_vars(TimeoutFires)

\* --------------------------------------------------------- the settings tab
\* What the user enters in the text fields of the settings tab.
TextInputs == {<<"g", " ">>}

\* What the user enters in the url fields.
UrlInputs == {<<"s3.example.com">>,
              <<"https", "://", "cdn.example.com", "/">>}

TextFields == {"region", "bucket", "folder", "localUploadFolder"}

ToggleFields == {"uploadOnDrag", "uploadVideo", "uploadAudio", "uploadPdf",
                 "localUpload", "useCustomEndpoint", "forcePathStyle",
                 "useCustomImageUrl"}

UrlFields == {"customEndpoint", "customImageUrl"}

\* onChange of a text field: settings[field] = value.trim(), then
\* saveSettings.  region and bucket are kept as one string.
SetText(field, value) ==
    /\ UserCanAct
    /\ field \in TextFields
    /\ settings' = [settings EXCEPT
                       ![field] = IF field \in {"region", "bucket"}
                                  THEN Join(Trim(value)) ELSE Trim(value)]
    /\ edits' = edits + 1
    /\ UNCHANGED <<s3, policy, folders, editor, hpc, prevented, notices, fm,
                   localUpload, file, kind, key, st, attempts, calls, placed,
                   hit, rt, fn, http>>

\* onChange of a toggle: settings[field] = value, then saveSettings.
SetToggle(field, value) ==
    /\ UserCanAct
    /\ field \in ToggleFields
    /\ settings' = [settings EXCEPT ![field] = value]
    /\ edits' = edits + 1
    /\ UNCHANGED <<s3, policy, folders, editor, hpc, prevented, notices, fm,
                   localUpload, file, kind, key, st, attempts, calls, placed,
                   hit, rt, fn, http>>

\* The value an url field stores: forced to start with a scheme and to end
\* with a slash, then trimmed.
NormalizeUrl(value) ==
    LET hasScheme == \E k \in 1..(Len(value) - 1) :
                         value[k] \in {"http", "https"} /\ value[k + 1] = "://"
        v1 == IF hasScheme THEN value ELSE <<"https", "://">> \o value
        v2 == IF v1[Len(v1)] \in {"/", "://"} THEN v1 ELSE v1 \o <<"/">>
    IN  Trim(v2)

\* onChange of an url field.
SetUrl(field, value) ==
    /\ UserCanAct
    /\ field \in UrlFields
    /\ settings' = [settings EXCEPT ![field] = NormalizeUrl(value)]
    /\ edits' = edits + 1
    /\ UNCHANGED <<s3, policy, folders, editor, hpc, prevented, notices, fm,
                   localUpload, file, kind, key, st, attempts, calls, placed,
                   hit, rt, fn, http>>

\* The plugin with the settings tab in use and nobody typing in the note.
NextCfg ==
    \/ \E ev \in Events, noteFile \in BOOLEAN, fmNow \in FmChoices :
          PasteHandler(ev, noteFile, fmNow)
    \/ \E i \in Files : ReadDone(i)
    \/ \E i \in Files : ReadFail(i)
    \/ \E i \in Files : PutOk(i)
    \/ \E i \in Files : PutFail(i)
    \/ \E i \in Files : ExistsDone(i)
    \/ \E i \in Files : CreateDone(i)
    \/ \E i \in Files : WriteOk(i)
    \/ \E i \in Files : WriteFail(i)
    \/ \E f \in TextFields, v \in TextInputs : SetText(f, v)
    \/ \E f \in ToggleFields, v \in BOOLEAN : SetToggle(f, v)
    \/ \E f \in UrlFields, v \in UrlInputs : SetUrl(f, v)

SpecCfg == Init /\ [][NextCfg]_vars

\* ===================================================================== C1
\* C1: for every paste/drop event that carries at least one file and passes
\* the handler's guards (the handler called preventDefault), the notice
\* "All files processed." is shown exactly once, whatever the per-file
\* outcomes: never more than once, and once every pipeline has ended for
\* all outcomes, a failed read of a file's bytes included.
C1_NoticeExactlyOnce ==
    /\ notices <= 1
    /\ (prevented /\ \A i \in Files : st[i] \notin Pending) => notices = 1

\* ===================================================================== C2
\* C2: no per-file failure rejects the batch: the promise returned by
\* pasteHandler never rejects, whichever step of a file's pipeline fails.
C2_BatchNeverRejects == hpc # "rejected"

\* ===================================================================== C3
\* C3: whenever the batch's aggregate promise has settled (fulfilled or
\* rejected), no pipeline of the batch is still pending.
C3_SettledMeansAllTerminal ==
    hpc \in {"fulfilled", "rejected"} => \A i \in Files : st[i] \notin Pending

\* ===================================================================== C4
\* C4: the reconciliation of a pipeline replaces only symbols of the
\* placeholder that this same pipeline inserted, never a sibling's (nor
\* anybody else's), also when two files have the same placeholder text.
C4_ReplacesOwnPlaceholder == \A i \in Files : hit[i] \subseteq {i}

\* ------------------------------------------- vocabulary of the claims below
\* The step in which the upload of file i settles and its callback ends.
SettleStep(i) ==
    st[i] \in {"putting", "creating", "writing"} /\ st'[i] \notin Pending

\* The step in which the upload of file i fails.
FailStep(i) == SettleStep(i) /\ st'[i] = "failed"

\* The text replaceText looks for on behalf of file i.
TargetOf(i) == Trim(Placeholder(file[i]))

\* The messages an upload fails with.
Messages == {"put failed", "Folder already exists.", "write failed"}

\* The first symbols of the final texts: embeds and the error line.
Heads == {"I", "V", "A", "P", "E"}

\* The offsets of the final-text heads that file i wrote.
HeadsOf(i) ==
    {k \in 1..Len(editor.text) :
        editor.own[k] = -i /\ editor.text[k] \in Heads}

\* ===================================================================== C5
\* C5 as stated: the placeholder of every accepted file is in the buffer
\* as soon as the event has been handled; no pipeline is ever waiting (for
\* its bytes or for anything else) with its placeholder not yet inserted.
C5_PlaceholderWithEvent ==
    \A i \in Files : st[i] \in Pending => placed[i]

C5_Inv ==
    \A i \in Files :
        (attempts[i] > 0 \/ st[i] \in (Pending \ {"reading"})
                         \/ st[i] \in {"succeeded", "failed"}) => placed[i]

C5_Step ==
    \A i \in Files :
        /\ (~placed[i] /\ placed'[i]) =>
              /\ st[i] = "reading"
              /\ editor'.text = Splice(editor.text, editor.cursor,
                                       editor.cursor, Placeholder(file[i]))
        /\ (st[i] = "reading" /\ st'[i] \in Pending \ {"reading"}) => placed'[i]
        /\ (attempts'[i] > attempts[i]) => placed'[i]

\* C5 (amended): the placeholder of an accepted file is inserted in the
\* step that continues the callback after the read of the file's bytes,
\* the one suspension point between the event and the insertion, and in
\* no other step; the insertion puts the placeholder at the cursor of that
\* moment; no upload (PUT, exists check or write) is dispatched for a file
\* whose placeholder has not been inserted.
C5_InsertedAfterReadBeforeDispatch == []C5_Inv /\ [][C5_Step]_vars

\* C5 witness: two placeholders went in after the event, the second file's
\* above the first's because the user moved the cursor in between, and the
\* first upload is already dispatched.
C5_Witness ==
    /\ edits > 0
    /\ placed[1] /\ placed[2]
    /\ st[1] = "putting" /\ st[2] = "putting"
    /\ \E k \in 1..Len(editor.own) : \E l \in 1..Len(editor.own) :
          k < l /\ editor.own[k] = 2 /\ editor.own[l] = 1

\* ===================================================================== C6
C6_Inv ==
    /\ \A i \in Files : attempts[i] <= 1
    /\ \A i \in Files : \A j \in Files \ {i} :
          (st[i] = "failed" /\ st[j] \in {"succeeded", "failed"}) =>
              calls[j] = 1

C6_Step ==
    \A i \in Files : FailStep(i) =>
        /\ LET occ == Occurrences(editor.text, TargetOf(i))
           IN  IF occ = {} THEN editor'.text = editor.text
               ELSE \E m \in Messages :
                       editor'.text =
                           Splice(editor.text, Min(occ),
                                  Min(occ) + Len(TargetOf(i)), ErrorLine(m))
        /\ \A j \in Files \ {i} :
              st'[j] = st[j] /\ calls'[j] = calls[j]
                             /\ attempts'[j] = attempts[j]

C7_OneReconciliation ==
    \A i \in Files :
        /\ st[i] \in {"succeeded", "failed"} => calls[i] = 1
        /\ st[i] \notin {"succeeded", "failed"} => calls[i] = 0
        /\ Cardinality(HeadsOf(i)) <= 1
        /\ \A k \in HeadsOf(i) : (editor.text[k] = "E") <=> (st[i] = "failed")

\* C7 witness: one file ended in the try, its sibling in the catch, each
\* with one call and its own final text in the buffer.
C7_Witness ==
    \E i \in Files : \E j \in Files \ {i} :
        /\ st[i] = "succeeded" /\ st[j] = "failed"
        /\ calls[i] = 1 /\ calls[j] = 1
        /\ HeadsOf(i) # {} /\ HeadsOf(j) # {}

\* ===================================================================== C8
C8_Step ==
    \A i \in Files :
        (SettleStep(i) /\ Occurrences(editor.text, TargetOf(i)) = {}) =>
            /\ editor'.text = editor.text
            /\ editor'.cursor = editor.cursor
            /\ st'[i] \in {"succeeded", "failed"}
            /\ calls'[i] = calls[i] + 1

\* C8: when the placeholder text of a file is not in the document at the
\* moment its upload settles, the replaceText call of that step leaves the
\* text and the cursor as they are, and the pipeline ends as succeeded or
\* failed like any other (its promise fulfils).
C8_AbsentPlaceholderIsNoOp == [][C8_Step]_vars

\* C8 witness: after a user edit, a file has made its replaceText call and
\* the call found nothing to replace.
C8_Witness ==
    \E i \in Files :
        /\ edits > 0
        /\ st[i] \in {"succeeded", "failed"}
        /\ calls[i] = 1
        /\ hit[i] = {}
        /\ editor.cursor # 0

\* ===================================================================== C9
\* C9: when the trimmed target occurs in the document, the result of
\* replaceText is the document with the first occurrence in document
\* order, and nothing else, replaced by the replacement: every symbol
\* before it and behind it, later occurrences included, is as it was.
C9_FirstOccurrenceOnly ==
    LET t   == Trim(rt.target)
        occ == Occurrences(rt.e.text, t)
    IN  (rt.done /\ occ # {}) =>
           /\ rt.res.text = Splice(rt.e.text, Min(occ), Min(occ) + Len(t),
                                   rt.replacement)
           /\ rt.res.own = Splice(rt.e.own, Min(occ), Min(occ) + Len(t),
                                  Fill(Len(rt.replacement), -1))

\* C9 witness: replaceText was applied to a document that holds the target
\* twice on the same line, below a line without it, and changed it.
C9_Witness ==
    LET t   == Trim(rt.target)
        occ == Occurrences(rt.e.text, t)
    IN  /\ rt.done
        /\ Cardinality(occ) >= 2
        /\ Min(occ) > 0
        /\ rt.e.text[Min(occ)] = "\n"
        /\ \A k \in (Min(occ) + 1)..Len(rt.e.text) : rt.e.text[k] # "\n"
        /\ rt.res.text # rt.e.text

\* ==================================================================== C10
\* Placeholder i stands untouched at offset p: its four symbols, written by
\* pipeline i, side by side.
Intact(i, p) ==
    /\ p + Len(Placeholder(file[i])) <= Len(editor.text)
    /\ \A k \in 1..Len(Placeholder(file[i])) :
          /\ editor.own[p + k] = i
          /\ editor.text[p + k] = Placeholder(file[i])[k]

C10_Step ==
    \A i \in Files : SettleStep(i) =>
        \A p \in 0..Len(editor.text) : Intact(i, p) =>
            \E n \in 1..Len(editor'.text) :
                /\ editor'.own =
                      Splice(editor.own, p, p + Len(TargetOf(i)), Fill(n, -i))
                /\ SubSeq(editor'.text, 1, p) = SubSeq(editor.text, 1, p)
                /\ SubSeq(editor'.text, p + n + 1, Len(editor'.text)) =
                      SubSeq(editor.text, p + Len(TargetOf(i)) + 1,
                             Len(editor.text))

\* C10: when the symbols of a file's placeholder are all still in place at
\* the moment its upload settles (whatever the user and the siblings did
\* elsewhere in the buffer), the settlement replaces exactly those symbols
\* by the file's final text and leaves everything else as it was.
C10_IntactPlaceholderReplaced == [][C10_Step]_vars

\* ==================================================================== C11
\* C11: the upload policy of an event is fixed when the event is handled.
\* Every step of a pipeline gives the storage key and the final text it
\* would give with the settings as they were at the event (policy),
\* whatever the settings tab has changed since: the key of a file is built
\* from the folder template of the event, and the embed a succeeded file
\* gets is built from the url prefix and the local folder of the event.
C11_Step ==
    \A i \in Files :
        /\ (st[i] = "reading" /\ st'[i] \in Pending \ {"reading"}) =>
              key'[i] = Key(getFolderPath(policy, fm, localUpload, Today).folder,
                            file[i])
        /\ (st[i] = "putting" /\ st'[i] = "succeeded") =>
              editor' = replaceText(editor, Placeholder(file[i]),
                            wrapFileDependingOnType(
                                RemoteLocation(policy, key[i]), kind[i],
                                IF localUpload THEN policy.localUploadFolder
                                ELSE <<>>),
                            -i)
        /\ (st[i] = "writing" /\ st'[i] = "succeeded") =>
              editor' = replaceText(editor, Placeholder(file[i]),
                            wrapFileDependingOnType(
                                IF key[i] # <<>> /\ key[i][1] = "/"
                                THEN Tail(key[i]) ELSE key[i],
                                kind[i],
                                IF localUpload THEN policy.localUploadFolder
                                ELSE <<>>),
                            -i)

C11_PolicyFixedAtEvent == [][C11_Step]_vars

\* ==================================================================== C12
\* C12: a remote upload uses the endpoint and the public url prefix that
\* the current settings resolve to.  In the step that dispatches a PUT the
\* client's endpoint, region and path style are those of the settings of
\* that moment, and in the step in which a PUT succeeds the prefix put in
\* front of the key is the one the settings of that moment resolve to.
C12_Step ==
    \A i \in Files :
        /\ (~localUpload /\ attempts'[i] > attempts[i]) =>
              /\ s3.endpoint = ApiEndpoint(settings)
              /\ s3.region = settings.region
              /\ s3.forcePathStyle = settings.forcePathStyle
        /\ (st[i] = "putting" /\ st'[i] = "succeeded") =>
              settings.imageUrlPath = ImageUrlPath(settings)

C12_ResolvedFromCurrentSettings == [][C12_Step]_vars

\* ==================================================================== C13
\* The first "://" of an endpoint, as an offset, or -1.
SchemeEnd(ep) == IndexOf(ep, <<"://">>)

\* C13: the public url prefix onload resolves is the custom image url when
\* that override is on; else, with path style forced, the API endpoint
\* followed by the bucket and "/"; else the API endpoint with the bucket
\* and "." put in right behind its scheme separator (an endpoint without a
\* scheme separator stays as it is).  Bucket "b" and endpoint
\* "https://s3.example.com/" give "https://s3.example.com/b/" and
\* "https://b.s3.example.com/".  A remote upload that succeeds resolves to
\* the prefix followed by the key.
C13_PrefixResolution ==
    (fn.op = "onload" /\ fn.done) =>
        LET d  == fn.arg.data
            ep == IF d.useCustomEndpoint THEN d.customEndpoint
                  ELSE <<"https", "://", "s3.", d.region, ".amazonaws.com",
                         "/">>
            k  == SchemeEnd(ep)
        IN  /\ d.useCustomImageUrl => fn.res.prefix = d.customImageUrl
            /\ (~d.useCustomImageUrl /\ d.forcePathStyle) =>
                  Join(fn.res.prefix) = Join(ep) \o d.bucket \o "/"
            /\ (~d.useCustomImageUrl /\ ~d.forcePathStyle /\ k # -1) =>
                  Join(fn.res.prefix) =
                      Join(SubSeq(ep, 1, k + 1)) \o d.bucket \o "."
                          \o Join(SubSeq(ep, k + 2, Len(ep)))
            /\ (~d.useCustomImageUrl /\ ~d.forcePathStyle /\ k = -1) =>
                  fn.res.prefix = ep
            /\ (/\ ~d.useCustomImageUrl /\ d.bucket = "b"
                /\ Join(ep) = "https://s3.example.com/") =>
                  Join(fn.res.prefix) = IF d.forcePathStyle
                                        THEN "https://s3.example.com/b/"
                                        ELSE "https://b.s3.example.com/"
            /\ fn.res.url = <<Join(fn.res.prefix)>> \o fn.arg.key

\* C13 witness: the host-style example of the spec, resolved and used for
\* a key with a folder.
C13_Witness ==
    /\ fn.op = "onload" /\ fn.done
    /\ ~fn.arg.data.useCustomImageUrl /\ ~fn.arg.data.forcePathStyle
    /\ fn.arg.data.useCustomEndpoint /\ fn.arg.data.bucket = "b"
    /\ fn.res.url = <<"https://b.s3.example.com/", "f", "/", "d1.png">>

\* ==================================================================== C14
\* C14: getFileType checks its rules in order and the first that matches
\* wins: a type starting with video/ with uploadVideo on is video; else a
\* type starting with audio/ with uploadAudio on is audio; else the type
\* application/pdf with uploadPdf on is pdf; else a type starting with
\* image/ is image, whatever the flags; everything else is null, a video
\* type with uploadVideo off included.
C14_FirstRuleWins ==
    (fn.op = "getFileType" /\ fn.done) =>
        LET ty    == fn.arg.file.type
            major == IF Len(ty) >= 2 THEN ty[1] ELSE ""
            video == major = "video" /\ fn.arg.uploadVideo
            audio == major = "audio" /\ fn.arg.uploadAudio
            pdf   == ty = <<"application", "pdf">> /\ fn.arg.uploadPdf
            image == major = "image"
        IN  /\ video => fn.res = "video"
            /\ (~video /\ audio) => fn.res = "audio"
            /\ (~video /\ ~audio /\ pdf) => fn.res = "pdf"
            /\ (~video /\ ~audio /\ ~pdf /\ image) => fn.res = "image"
            /\ (~video /\ ~audio /\ ~pdf /\ ~image) => fn.res = "null"
            /\ (major = "video" /\ ~fn.arg.uploadVideo) => fn.res = "null"
            /\ image => fn.res = "image"

\* C14 witness: video/mp4 with uploadVideo off, the other flags on, gave
\* null.
C14_Witness ==
    /\ fn.op = "getFileType" /\ fn.done
    /\ fn.arg.file.type = <<"video", "mp4">>
    /\ ~fn.arg.uploadVideo /\ fn.arg.uploadAudio /\ fn.arg.uploadPdf
    /\ fn.res = "null"

\* ==================================================================== C15
\* C15: the derived file name is the digest, ".", and what follows the last
\* "." of the original file name; for an original name without "." the
\* derived name takes no extension from the file name: it is the digest
\* alone, with or without the ".".
C15_ExtensionAfterLastDot ==
    (fn.op = "newFileName" /\ fn.done) =>
        LET name   == fn.arg.name
            digest == Md5(fn.arg.bytes)
        IN  /\ Len(name) >= 2 => fn.res = digest \o "." \o name[Len(name)]
            /\ Len(name) = 1 => fn.res \in {digest, digest \o "."}

\* ==================================================================== C16
Tokens == {"${year}", "${month}", "${day}"}

\* What a piece of a folder template stands for on a date: the 4-digit
\* year, the 2-digit month, the 2-digit day, or the piece itself.
PieceOn(piece, date) ==
    IF piece = "${year}" THEN Join(ToDigits(date.year))
    ELSE IF piece = "${month}"
         THEN (IF date.month < 10 THEN "0" ELSE "") \o Join(ToDigits(date.month))
    ELSE IF piece = "${day}"
         THEN (IF date.day < 10 THEN "0" ELSE "") \o Join(ToDigits(date.day))
    ELSE piece

\* C16: for every folder template of literal text and the tokens ${year},
\* ${month}, ${day}, each any number of times, and every date,
\* getFolderPath returns a string without any of the tokens, in which
\* every token of the template has become the year, the zero-padded month
\* or the zero-padded day of the date.
C16_AllTokensSubstituted ==
    (fn.op = "getFolderPath" /\ fn.done) =>
        LET tmpl == IF fn.arg.isLocal THEN fn.arg.cfg.localUploadFolder
                    ELSE fn.arg.cfg.folder
        IN  /\ ~fn.res.threw
            /\ \A k \in 1..Len(fn.res.folder) : fn.res.folder[k] \notin Tokens
            /\ Join(fn.res.folder) =
                  Join([k \in 1..Len(tmpl) |-> PieceOn(tmpl[k], fn.arg.date)])

\* ==================================================================== C17
\* C17: in local mode, under every interleaving of the pipelines of a
\* batch, the destination folder of a file exists before its bytes are
\* written, and a createFolder call a pipeline has made never meets a
\* folder that exists by then: the call creates the folder and the
\* pipeline goes on to its write, so files sharing one initially missing
\* folder are all written.
C17_Inv ==
    \A i \in Files :
        (localUpload /\ st[i] = "writing" /\ FolderOfKey(key[i]) # <<>>) =>
            FolderOfKey(key[i]) \in folders

C17_Step ==
    \A i \in Files :
        (st[i] = "creating" /\ st'[i] # "creating") =>
            /\ FolderOfKey(key[i]) \notin folders
            /\ st'[i] = "writing"

C17_FolderEnsuredOnce == []C17_Inv /\ [][C17_Step]_vars

\* ==================================================================== C18
\* C18: every request the plugin's client dispatches settles in the end:
\* when no response arrives, the timeout side of the race fails it.  For
\* the handler as onload constructs it, a dispatched request leads to a
\* fulfilled or failed one.
C18_RequestSettles ==
    (http.state = "dispatched" /\ http.options = OnloadHandlerOptions)
        ~> (http.state \in {"fulfilled", "failed"})

\* The same for a handler constructed with a requestTimeout.
C18_WithTimeoutSettles ==
    (http.state = "dispatched" /\ http.options # OnloadHandlerOptions)
        ~> (http.state \in {"fulfilled", "failed"})

\* ==================================================================== C19
\* C19: a call of handle with the signal already aborted fails with
\* "Request aborted" and never invokes requestUrl; a signal aborted only
\* after the dispatch changes nothing about the request in flight, which
\* stays dispatched and settles by its response or its timeout.
C19_Inv ==
    /\ (http.state # "new" /\ http.atCall) =>
          /\ http.state = "failed"
          /\ http.error = "Request aborted"
          /\ http.calls = 0
          /\ http.sent = <<>>
    /\ (http.state \notin {"idle", "new"} /\ ~http.atCall) =>
          /\ http.calls = 1
          /\ http.error # "Request aborted"

C19_Step ==
    (http.state = "dispatched" /\ ~http.aborted /\ http'.aborted) =>
        http' = [http EXCEPT !.aborted = TRUE]

C19_AbortOnlyBeforeDispatch == []C19_Inv /\ [][C19_Step]_vars

\* C19 witness: the signal was aborted after the dispatch and the response
\* was delivered all the same.
C19_Witness ==
    /\ http.state = "fulfilled"
    /\ http.aborted /\ ~http.atCall
    /\ http.calls = 1

\* ==================================================================== C20
\* C20: a file of the batch that getFileType rejects is dropped: its
\* callback has returned, its bytes are never read, no placeholder is
\* inserted for it, no key is built, no PUT or local write is dispatched,
\* replaceText is never called for it and nothing in the buffer was
\* written on its behalf, whatever its siblings do.
C20_RejectedFileIsDropped ==
    \A i \in Files :
        (file[i] # NoFile /\ kind[i] = "null") =>
            /\ st[i] = "skipped"
            /\ ~placed[i]
            /\ key[i] = <<>>
            /\ attempts[i] = 0
            /\ calls[i] = 0
            /\ hit[i] = {}
            /\ \A k \in 1..Len(editor.own) : editor.own[k] \notin {i, -i}

\* C20 witness: a rejected file next to a sibling that went all the way,
\* and the batch complete.
C20_Witness ==
    \E i \in Files : \E j \in Files \ {i} :
        /\ file[i] # NoFile /\ kind[i] = "null" /\ st[i] = "skipped"
        /\ st[j] = "succeeded"
        /\ \E k \in 1..Len(editor.own) : editor.own[k] = -j
        /\ hpc = "fulfilled" /\ notices = 1

\* ==================================================================== C21
\* The event is one pasteHandler returns from at a guard: it is already
\* defaultPrevented, or there is no active note file, or it is a drop while
\* uploadOnDrag (the frontmatter's value when defined, else the setting) is
\* false, or it carries no files.
C21_Guarded(ev, noteFile, fmNow) ==
    \/ ev.defaultPrevented
    \/ ~noteFile
    \/ /\ ev.type = "drop"
       /\ ~(IF fmNow.present /\ fmNow.uploadOnDrag # <<>>
            THEN fmNow.uploadOnDrag[1] ELSE settings.uploadOnDrag)
    \/ ev.files = <<>>

C21_Step ==
    \A ev \in Events, noteFile \in BOOLEAN, fmNow \in FmChoices :
        PasteHandler(ev, noteFile, fmNow) =>
            /\ C21_Guarded(ev, noteFile, fmNow) =>
                  /\ editor' = editor
                  /\ folders' = folders
                  /\ attempts' = attempts
                  /\ st' = st
                  /\ prevented' = prevented
                  /\ notices' = notices
                  /\ hpc' = "returned"
            /\ ~C21_Guarded(ev, noteFile, fmNow) =>
                  /\ prevented'
                  /\ hpc' # "returned"

\* C21: a call of pasteHandler for a guarded event leaves the buffer, the
\* cursor and the storage as they are, starts no pipeline, does not call
\* preventDefault and shows no notice; a call for any other event calls
\* preventDefault, also when every file of the event is of an unsupported
\* type.
C21_GuardsLeaveNoTrace == [][C21_Step]_vars

\* C21 witness: an event with files of which none is supported was
\* handled: preventDefault was called, every file is skipped and the
\* buffer is empty as before.
C21_Witness ==
    /\ prevented
    /\ file[1] # NoFile
    /\ \A i \in Files : file[i] # NoFile => st[i] = "skipped"
    /\ editor.text = <<>>
    /\ edits = 0

====
